---- MODULE Spec2Model ----
(***************************************************************************)
(* A model of the exact k-means implementation of larsgw/cluste-rs:        *)
(* the quickselect median (quickselect.rs), the mrkd-tree construction     *)
(* (mrkd.rs), the hyper-rectangle geometry (hyper_rectangle.rs), the       *)
(* owner / update traversal (centers.rs) and the convergence loop          *)
(* (clusterer.rs).                                                         *)
(*                                                                         *)
(* Numbers.  The program computes in f64.  The model computes in exact     *)
(* rational arithmetic: a coordinate is a pair <<n, d>> in lowest terms    *)
(* with d > 0; <<1, 0>> and <<-1, 0>> stand for f64::INFINITY and          *)
(* f64::NEG_INFINITY.  Point::distance takes a square root; the program    *)
(* only ever compares distances (<, ==), and the square root is strictly   *)
(* monotone, so the model's distance is the squared Euclidean distance.    *)
(* Tree::euclidean_norm_sum (a sum of square roots that no operation of    *)
(* the program reads) is not modelled.                                     *)
(***************************************************************************)
EXTENDS Integers, Sequences, FiniteSets

\* Dimension of the points (const generic M; the binary fixes it to 2).
M == 2

\* Input coordinates are the integers 0..MaxCoord.
MaxCoord == 1

\* The input holds at most MaxPoints points (const generic R).
MaxPoints == 3

\* At most MaxK centers (const generic K).
MaxK == 2

\* The convergence loop is followed for at most MaxIter iterations.
MaxIter == 4

VARIABLES
    points,         \* the input points (&[Point<M>])
    pc,             \* position of the program
    sel,            \* locals of median: list, left, right, k, d, rounds, ret
    stack,          \* pending make_node calls: points, h, d, path
    tree,           \* the nodes built so far, by path from the root
    centers,        \* Centers.0, the current centers
    h,              \* the hyper-rectangle handed to owner / closest / split
    x,              \* the point handed to closest (of the box, of the centers)
    out,            \* the value returned by the last pure operation
    algorithm,      \* Algorithm of the running fit
    initial,        \* the centers drawn by random_points
    new_counts,     \* new_counts of the last loop iteration
    point_centers,  \* point_centers of the running fit
    trace,          \* the centers after each iteration of the running fit
    simple          \* what the finished Algorithm::Simple fit returned

vars == <<points, pc, sel, stack, tree, centers, h, x, out, algorithm,
          initial, new_counts, point_centers, trace, simple>>

---------------------------------------------------------------------------
(* Exact arithmetic *)

Abs(a) == IF a < 0 THEN -a ELSE a

RECURSIVE Gcd(_, _)
Gcd(a, b) == IF b = 0 THEN a ELSE Gcd(b, a % b)

\* The rational n/d (d > 0) in lowest terms.
Rat(n, d) == LET g == Gcd(Abs(n), d) IN <<n \div g, d \div g>>

Num(a) == a[1]
Den(a) == a[2]

Zero == <<0, 1>>
INFINITY == <<1, 0>>
NEG_INFINITY == <<-1, 0>>

RAdd(a, b) == Rat(Num(a) * Den(b) + Num(b) * Den(a), Den(a) * Den(b))
RSub(a, b) == Rat(Num(a) * Den(b) - Num(b) * Den(a), Den(a) * Den(b))
RMul(a, b) == Rat(Num(a) * Num(b), Den(a) * Den(b))
\* a < b; also right when exactly one side is infinite.
RLt(a, b) == Num(a) * Den(b) < Num(b) * Den(a)
RLe(a, b) == a = b \/ RLt(a, b)

\* f64::clamp(min, max)
Clamp(a, min, max) == IF RLt(a, min) THEN min ELSE IF RLt(max, a) THEN max ELSE a

Dims == 1..M

---------------------------------------------------------------------------
(* point.rs *)

\* Point::default
PointDefault == [d \in Dims |-> Zero]

\* Point::distance, squared
Distance(p, q) ==
    LET sq(d) == RMul(RSub(p[d], q[d]), RSub(p[d], q[d]))
        sum[d \in 0..M] == IF d = 0 THEN Zero ELSE RAdd(sum[d - 1], sq(d))
    IN  sum[M]

\* impl Add for Point
PointAdd(p, q) == [d \in Dims |-> RAdd(p[d], q[d])]

\* impl Div<usize> for Point
PointDiv(p, n) == [d \in Dims |-> RMul(p[d], Rat(1, n))]

\* Point * usize
PointMul(p, n) == [d \in Dims |-> RMul(p[d], Rat(n, 1))]

\* get_range, the loop over the points from i on
RECURSIVE RangeLoop(_, _, _, _)
RangeLoop(ps, i, min, max) ==
    IF i > Len(ps) THEN <<min, max>>
    ELSE RangeLoop(ps, i + 1,
            [d \in Dims |-> IF RLt(ps[i][d], min[d]) THEN ps[i][d] ELSE min[d]],
            [d \in Dims |-> IF RLt(max[d], ps[i][d]) THEN ps[i][d] ELSE max[d]])

\* get_range with min starting from 0.0
get_range_FromZero(ps) ==
    RangeLoop(ps, 1, [d \in Dims |-> Zero], [d \in Dims |-> NEG_INFINITY])

\* get_range
get_range(ps) ==
    RangeLoop(ps, 1, [d \in Dims |-> INFINITY], [d \in Dims |-> NEG_INFINITY])

---------------------------------------------------------------------------
(* hyper_rectangle.rs; a hyper-rectangle is the pair <<min corner, max corner>> *)

\* HyperRectangle::split with the two boxes returned in the other order
HSplit_Swapped(hr, d, v) ==
    LET a == [hr[2] EXCEPT ![d] = v]
        b == [hr[1] EXCEPT ![d] = v]
    IN  << <<b, hr[2]>>, <<hr[1], a>> >>

\* HyperRectangle::split that sets every coordinate of the new corners to v
HSplit_AllDims(hr, d, v) ==
    LET a == [dd \in Dims |-> v]
        b == [dd \in Dims |-> v]
    IN  << <<hr[1], a>>, <<b, hr[2]>> >>

\* HyperRectangle::split
HSplit(hr, d, v) ==
    LET a == [hr[2] EXCEPT ![d] = v]
        b == [hr[1] EXCEPT ![d] = v]
    IN  << <<hr[1], a>>, <<b, hr[2]>> >>

\* HyperRectangle::closest that clamps from below only
HClosest_NoUpper(hr, p) == [d \in Dims |-> IF RLt(p[d], hr[1][d]) THEN hr[1][d] ELSE p[d]]

\* HyperRectangle::closest
HClosest(hr, p) == [d \in Dims |-> Clamp(p[d], hr[1][d], hr[2][d])]

\* HyperRectangle::distance
HDistance(hr, p) == Distance(HClosest(hr, p), p)

\* HyperRectangle::width
HWidth(hr) == [d \in Dims |-> RSub(hr[2][d], hr[1][d])]

---------------------------------------------------------------------------
(* quickselect.rs; indices are the program's, from 0: list[i] is l[i + 1] *)

Swap(l, i, j) == [l EXCEPT ![i + 1] = l[j + 1], ![j + 1] = l[i + 1]]

\* the for loop of partition: <<list, store_index>> after i = from..right-1
RECURSIVE PartitionLoop(_, _, _, _, _, _)
PartitionLoop(l, store_index, i, rgt, pivot_value, d) ==
    IF i >= rgt THEN <<l, store_index>>
    ELSE IF RLt(l[i + 1][d], pivot_value)
         THEN PartitionLoop(Swap(l, store_index, i), store_index + 1, i + 1,
                            rgt, pivot_value, d)
         ELSE PartitionLoop(l, store_index, i + 1, rgt, pivot_value, d)

\* partition: <<list after the call, the returned store_index>>
Partition(l, lft, rgt, pivot_index, d) ==
    LET pivot_value == l[pivot_index + 1][d]
        r == PartitionLoop(Swap(l, pivot_index, rgt), lft, lft, rgt, pivot_value, d)
    IN  <<Swap(r[1], rgt, r[2]), r[2]>>

\* The indices rand::seq::index::sample(rng, right - left, 1) can add to left.
PivotChoices(lft, rgt) == lft..(rgt - 1)

\* a pass of median's loop that keeps the pivot's place in the active range
MedianRound_KeepPivot(s, pivot_index) ==
    LET r == Partition(s.list, s.left, s.right, pivot_index, s.d)
        sorted_pivot_index == r[2]
        t == [s EXCEPT !.list = r[1], !.rounds = s.rounds + 1]
    IN  IF s.k = sorted_pivot_index
            THEN [t EXCEPT !.ret = <<r[1][s.k + 1][s.d]>>]
        ELSE IF s.k < sorted_pivot_index
            THEN [t EXCEPT !.right = sorted_pivot_index]
        ELSE [t EXCEPT !.left = sorted_pivot_index]

\* One pass of the loop of median that has left /= right, with the pivot the
\* random source chose: the locals after it, and the return value if it returns.
MedianRound(s, pivot_index) ==
    LET r == Partition(s.list, s.left, s.right, pivot_index, s.d)
        sorted_pivot_index == r[2]
        t == [s EXCEPT !.list = r[1], !.rounds = s.rounds + 1]
    IN  IF s.k = sorted_pivot_index
            THEN [t EXCEPT !.ret = <<r[1][s.k + 1][s.d]>>]
        ELSE IF s.k < sorted_pivot_index
            THEN [t EXCEPT !.right = sorted_pivot_index - 1]
        ELSE [t EXCEPT !.left = sorted_pivot_index + 1]

\* median's locals with the target rank length / 2 (the upper median)
MedianEntry_Upper(ps, d) ==
    [list |-> ps, left |-> 0, right |-> Len(ps) - 1, k |-> Len(ps) \div 2,
     d |-> d, rounds |-> 0, ret |-> <<>>]

\* The locals of median(ps, d) on entry to the loop (ps non-empty).
MedianEntry(ps, d) ==
    [list |-> ps, left |-> 0, right |-> Len(ps) - 1, k |-> (Len(ps) - 1) \div 2,
     d |-> d, rounds |-> 0, ret |-> <<>>]

\* Every value median can return from locals s, over all pivot choices.
RECURSIVE MedianLoop(_)
MedianLoop(s) ==
    IF s.ret /= <<>> THEN {s.ret[1]}
    ELSE IF s.left = s.right THEN {s.list[s.left + 1][s.d]}
    ELSE UNION {MedianLoop(MedianRound(s, pv)) : pv \in PivotChoices(s.left, s.right)}

\* median(ps, d): the values it can return (ps non-empty).
Median(ps, d) == MedianLoop(MedianEntry(ps, d))

---------------------------------------------------------------------------
(* Inputs *)

Coords == {Rat(c, 1) : c \in 0..MaxCoord}
PointSet == [Dims -> Coords]

RECURSIVE SeqsUpTo(_, _)
SeqsUpTo(S, n) ==
    IF n = 0 THEN {<<>>}
    ELSE LET shorter == SeqsUpTo(S, n - 1)
         IN  shorter \cup {Append(q, e) : q \in {t \in shorter : Len(t) = n - 1}, e \in S}

PointSeqs == SeqsUpTo(PointSet, MaxPoints)

\* The point sequences in non-decreasing (lexicographic) order: one
\* representative of every multiset of points.
RECURSIVE LexLe(_, _, _)
LexLe(p, q, d) ==
    IF d > M THEN TRUE
    ELSE RLt(p[d], q[d]) \/ (p[d] = q[d] /\ LexLe(p, q, d + 1))

SortedPointSeqs ==
    {ps \in PointSeqs : \A i \in 1..(Len(ps) - 1) : LexLe(ps[i], ps[i + 1], 1)}

\* Centers handed to owner directly: any positions on the grid widened by one
\* towards the negative side.  (Mirroring every coordinate c to MaxCoord - c
\* maps boxes to boxes, so centers beyond the positive side add no new case;
\* boxes that do not reach MaxCoord have centers on either side of them.)
CenterCoords == {Rat(c, 1) : c \in -1..MaxCoord}
CenterSet == [Dims -> CenterCoords]
CenterSeqs == SeqsUpTo(CenterSet, MaxK) \ {<<>>}

\* Centers handed to update directly: any positions on the input grid.
GridCenterSeqs == SeqsUpTo(PointSet, MaxK) \ {<<>>}

\* Well-formed hyper-rectangles with corners on the input grid.
Boxes == {b \in PointSet \X PointSet : \A d \in Dims : RLe(b[1][d], b[2][d])}

\* Points of the half-integer grid.
HalfCoords == {Rat(c, 2) : c \in 0..(2 * MaxCoord)}
HalfPoints == [Dims -> HalfCoords]

\* The scenario of centers.rs's test `owner`: the box [(0,0),(2,2)] and the
\* centers (-2.5,-2.5), (3,1).
TestBox == << [d \in Dims |-> Zero], [d \in Dims |-> Rat(2, 1)] >>
TestCenters == << [d \in Dims |-> Rat(-5, 2)],
                 [d \in Dims |-> IF d = 1 THEN Rat(3, 1) ELSE Rat(1, 1)] >>

\* The point of hyper_rectangle.rs's tests `closest` and `distance`: (-2, 3).
TestPoint == [d \in Dims |-> IF d = 1 THEN Rat(-2, 1) ELSE Rat(3, 1)]

\* Points handed to HyperRectangle::closest and values handed to split: the
\* half-integer grid widened by one on every side.
ProbeCoords == {Rat(c, 2) : c \in -2..(2 * MaxCoord + 2)}
ProbePoints == [Dims -> ProbeCoords]

NoSel == [list |-> <<>>, left |-> 0, right |-> 0, k |-> 0, d |-> 1, rounds |-> 0,
          ret |-> <<>>]
NoBox == <<PointDefault, PointDefault>>

---------------------------------------------------------------------------
(* The median selector as a state machine: one step per pass of its loop *)

\* The variables the median selector leaves alone.
medianFrame == <<stack, tree, centers, h, x, out, algorithm, initial, new_counts,
                 point_centers, trace, simple>>

InitMedian ==
    /\ points \in PointSeqs
    /\ pc = "call"
    /\ sel \in {[NoSel EXCEPT !.d = d] : d \in Dims}
    /\ stack = <<>> /\ tree = <<>> /\ centers = <<>> /\ h = NoBox
    /\ x = PointDefault /\ out = <<>> /\ algorithm = "None" /\ initial = <<>>
    /\ new_counts = <<>> /\ point_centers = <<>> /\ trace = <<>> /\ simple = <<>>

\* median called with an empty slice: `length - 1` underflows (a panic in a
\* debug build; a release build wraps and then indexes the empty list).
MedianPanic ==
    /\ pc = "call" /\ Len(points) = 0
    /\ pc' = "panic"
    /\ UNCHANGED <<points, sel>> /\ UNCHANGED medianFrame

\* median called with a non-empty slice: copy it and set left, right, k.
MedianEnter ==
    /\ pc = "call" /\ Len(points) > 0
    /\ sel' = MedianEntry(points, sel.d)
    /\ pc' = "loop"
    /\ UNCHANGED points /\ UNCHANGED medianFrame

\* left == right: return list[left].
MedianReturn ==
    /\ pc = "loop" /\ sel.left = sel.right
    /\ sel' = [sel EXCEPT !.ret = <<sel.list[sel.left + 1][sel.d]>>]
    /\ pc' = "returned"
    /\ UNCHANGED points /\ UNCHANGED medianFrame

\* One pass with a random pivot: partition, then return or narrow the range.
MedianPass ==
    /\ pc = "loop" /\ sel.left /= sel.right
    /\ \E pivot_index \in PivotChoices(sel.left, sel.right) :
          sel' = MedianRound(sel, pivot_index)
    /\ pc' = IF sel'.ret /= <<>> THEN "returned" ELSE "loop"
    /\ UNCHANGED points /\ UNCHANGED medianFrame

NextMedian == MedianPanic \/ MedianEnter \/ MedianReturn \/ MedianPass

SpecMedian == InitMedian /\ [][NextMedian]_vars

\* Number of entries of ps whose coordinate d is below / at most v.
CountLt(ps, d, v) == Cardinality({i \in 1..Len(ps) : RLt(ps[i][d], v)})
CountLe(ps, d, v) == Cardinality({i \in 1..Len(ps) : RLe(ps[i][d], v)})

\* v is the entry at index i (from 0) of the ascending sort of ps's coordinates d.
IsSortedAt(ps, d, i, v) == CountLt(ps, d, v) <= i /\ i < CountLe(ps, d, v)

\* C5: whenever median returns, whatever pivots were drawn, the value returned
\* is the entry at index (n-1)/2 of the ascending-sorted dimension-d coordinates.
C5_MedianCorrect ==
    pc = "returned" =>
        IsSortedAt(points, sel.d, (Len(points) - 1) \div 2, sel.ret[1])

\* C5 witness: an even-sized input with distinct coordinates, out of order,
\* returned after a partition pass.
C5_Witness ==
    /\ pc = "returned" /\ Len(points) = 2 /\ sel.rounds >= 1
    /\ RLt(points[2][sel.d], points[1][sel.d])

\* median runs on: a call that has started takes its next step.
SpecMedianFair == SpecMedian /\ WF_vars(NextMedian)

\* C17: for every non-empty input and every sequence of pivot choices the loop
\* of median returns: in the loop left <= k <= right with k = (n-1)/2, a round
\* that does not return leaves a strictly smaller active range inside the old
\* one, at most n rounds are made, and a single-element input returns without
\* a partition round.
C17_Terminates ==
    /\ [](pc \in {"loop", "returned"} =>
            /\ sel.k = (Len(points) - 1) \div 2
            /\ sel.left <= sel.k /\ sel.k <= sel.right
            /\ sel.rounds <= Len(points)
            /\ Len(points) = 1 => sel.rounds = 0)
    /\ [][(pc = "loop" /\ pc' = "loop") =>
            /\ sel.left <= sel'.left /\ sel'.right <= sel.right
            /\ sel'.right - sel'.left < sel.right - sel.left]_vars
    /\ (Len(points) >= 1 => <>(pc = "returned"))

\* C17 witness: median returned after two partition rounds.
C17_Witness ==
    /\ pc = "returned" /\ sel.rounds >= 2

---------------------------------------------------------------------------
(* mrkd.rs.  The tree is the function `tree` from paths to nodes: the root
   is <<>>, the children of the node at path p are at Append(p, "l") and
   Append(p, "r").  Dimensions are 1..M here, 0..M-1 in the program. *)

\* The map f with f[key] = val added.
Put(f, key, val) ==
    [q \in DOMAIN f \cup {key} |-> IF q = key THEN val ELSE f[q]]

\* make_node, the loop that sums the points (center_of_mass before the division)
RECURSIVE PointSum(_, _)
PointSum(ps, i) ==
    IF i = 0 THEN PointDefault ELSE PointAdd(PointSum(ps, i - 1), ps[i])

\* center_of_mass without the division by number_of_points
CenterOfMass_NoDiv(ps) == PointSum(ps, Len(ps))

\* make_node: center_of_mass
CenterOfMass(ps) == PointDiv(PointSum(ps, Len(ps)), Len(ps))

\* split_points: new_d = (d + 1) % M
NextDim(d) == (d % M) + 1

\* split_points: the groups p1, p2
SplitLeft(ps, d, v) == SelectSeq(ps, LAMBDA p : RLe(p[d], v))
SplitRight(ps, d, v) == SelectSeq(ps, LAMBDA p : ~RLe(p[d], v))

\* A pending call make_node(ps, hr, d) for the node at `path`.  `same` counts
\* the callers in a row that passed their whole slice on as p1.
Frame(ps, hr, d, path, same) ==
    [points |-> ps, h |-> hr, d |-> d, path |-> path, same |-> same]

\* The Tree fields of make_node's result for a leaf / a non-leaf.
LeafNode(f) ==
    [h |-> f.h, number_of_points |-> Len(f.points),
     center_of_mass |-> CenterOfMass(f.points),
     kind |-> "Leaf", point |-> f.points[1], d |-> 0, v |-> Zero]
NonLeafNode(f, v) ==
    [h |-> f.h, number_of_points |-> Len(f.points),
     center_of_mass |-> CenterOfMass(f.points),
     kind |-> "NonLeaf", point |-> PointDefault, d |-> f.d, v |-> v]

\* split_points with the groups handed to the wrong sides: p2 left, p1 right
SplitFrames_Swapped(f, v) ==
    LET hs == HSplit(f.h, f.d, v)
        p1 == SplitLeft(f.points, f.d, v)
        p2 == SplitRight(f.points, f.d, v)
    IN  << Frame(p2, hs[1], NextDim(f.d), Append(f.path, "l"), 0),
           Frame(p1, hs[2], NextDim(f.d), Append(f.path, "r"),
                 IF p1 = f.points THEN f.same + 1 ELSE 0) >>

\* split_points: the two recursive calls, the left one first.
SplitFrames(f, v) ==
    LET hs == HSplit(f.h, f.d, v)
        p1 == SplitLeft(f.points, f.d, v)
        p2 == SplitRight(f.points, f.d, v)
    IN  << Frame(p1, hs[1], NextDim(f.d), Append(f.path, "l"),
                 IF p1 = f.points THEN f.same + 1 ELSE 0),
           Frame(p2, hs[2], NextDim(f.d), Append(f.path, "r"), 0) >>

\* Node::get_points: the depth-first sequence of the points below `path`.
RECURSIVE get_points(_, _)
get_points(t, path) ==
    IF t[path].kind = "Leaf" THEN <<t[path].point>>
    ELSE get_points(t, Append(path, "l")) \o get_points(t, Append(path, "r"))

\* The variables the construction of the tree leaves alone.
treeFrame == <<sel, centers, h, x, out, algorithm, initial, new_counts,
               point_centers, trace, simple>>

\* Tree::initialize: the bounding box of the points, split dimension 0.
Initialize ==
    /\ pc = "call"
    /\ LET r == get_range(points)
       IN  stack' = <<Frame(points, <<r[1], r[2]>>, 1, <<>>, 0)>>
    /\ pc' = "make_node"
    /\ UNCHANGED <<points, tree>> /\ UNCHANGED treeFrame

\* make_node on a single point: a leaf.
MakeLeaf ==
    /\ pc = "make_node" /\ stack /= <<>>
    /\ LET f == Head(stack) IN
        /\ Len(f.points) = 1
        /\ tree' = Put(tree, f.path, LeafNode(f))
        /\ stack' = Tail(stack)
    /\ pc' = IF stack' = <<>> THEN "built" ELSE "make_node"
    /\ UNCHANGED points /\ UNCHANGED treeFrame

\* make_node on several points: the median, the split, the two calls.
MakeNonLeaf ==
    /\ pc = "make_node" /\ stack /= <<>>
    /\ LET f == Head(stack) IN
        /\ Len(f.points) > 1 /\ f.same < M
        /\ \E v \in Median(f.points, f.d) :
            /\ tree' = Put(tree, f.path, NonLeafNode(f, v))
            /\ stack' = SplitFrames(f, v) \o Tail(stack)
    /\ pc' = "make_node"
    /\ UNCHANGED points /\ UNCHANGED treeFrame

\* make_node on no point: median panics on the empty slice.
MakeNodePanic ==
    /\ pc = "make_node" /\ stack /= <<>>
    /\ Len(Head(stack).points) = 0
    /\ pc' = "panic"
    /\ UNCHANGED <<points, stack, tree>> /\ UNCHANGED treeFrame

\* make_node on the slice, and the split dimension, that a caller M levels up
\* was given: the recursion repeats itself and overflows the call stack.
MakeNodeOverflow ==
    /\ pc = "make_node" /\ stack /= <<>>
    /\ Len(Head(stack).points) > 1 /\ Head(stack).same >= M
    /\ pc' = "overflow"
    /\ UNCHANGED <<points, stack, tree>> /\ UNCHANGED treeFrame

InitTree ==
    /\ points \in PointSeqs
    /\ pc = "call"
    /\ sel = NoSel
    /\ stack = <<>> /\ tree = <<>> /\ centers = <<>> /\ h = NoBox
    /\ x = PointDefault /\ out = <<>> /\ algorithm = "None" /\ initial = <<>>
    /\ new_counts = <<>> /\ point_centers = <<>> /\ trace = <<>> /\ simple = <<>>

NextTree ==
    \/ Initialize
    \/ MakeLeaf
    \/ MakeNonLeaf
    \/ MakeNodePanic
    \/ MakeNodeOverflow

SpecTree == InitTree /\ [][NextTree]_vars

---------------------------------------------------------------------------
(* centers.rs.  cs is Centers.0; center k of the program (from 0) is cs[k + 1].
   Option::Some(k) is <<k>>, Option::None is <<>>. *)

\* Centers::closest, the loop from center k on
RECURSIVE ClosestLoop(_, _, _, _, _)
ClosestLoop(cs, p, k, min_d, min_c) ==
    IF k >= Len(cs) THEN min_c
    ELSE LET d == Distance(p, cs[k + 1])
         IN  IF RLt(d, min_d) THEN ClosestLoop(cs, p, k + 1, d, k)
             ELSE ClosestLoop(cs, p, k + 1, min_d, min_c)

\* Centers::closest that lets the last of several nearest centers win
Closest_LastMin(cs, p) ==
    LET last[k \in 0..Len(cs)] ==
            IF k = 0 THEN <<INFINITY, 0>>
            ELSE LET d == Distance(p, cs[k])
                 IN  IF RLe(d, last[k - 1][1]) THEN <<d, k - 1>> ELSE last[k - 1]
    IN  last[Len(cs)][2]

\* Centers::closest
Closest(cs, p) == ClosestLoop(cs, p, 0, INFINITY, 0)

\* Centers::min_d, the loop from center c on
RECURSIVE MinDLoop(_, _, _, _, _, _)
MinDLoop(cs, hr, c, min_d, min_c, single_closest) ==
    IF c >= Len(cs) THEN (IF single_closest THEN <<min_c>> ELSE <<>>)
    ELSE LET d == HDistance(hr, cs[c + 1])
         IN  IF d = min_d THEN MinDLoop(cs, hr, c + 1, min_d, min_c, FALSE)
             ELSE IF RLt(d, min_d) THEN MinDLoop(cs, hr, c + 1, d, c, TRUE)
             ELSE MinDLoop(cs, hr, c + 1, min_d, min_c, single_closest)

\* Centers::min_d
MinD(cs, hr) == MinDLoop(cs, hr, 0, INFINITY, 0, TRUE)

\* the corner of the box nearest to c2, seen from c1, instead of the furthest
Extreme_Near(cs, c1, c2, hr) ==
    [d \in Dims |-> IF RLt(cs[c1 + 1][d], cs[c2 + 1][d]) THEN hr[1][d] ELSE hr[2][d]]

\* Centers::dominates, the point p of the box furthest towards c2
Extreme(cs, c1, c2, hr) ==
    [d \in Dims |-> IF RLt(cs[c1 + 1][d], cs[c2 + 1][d]) THEN hr[2][d] ELSE hr[1][d]]

\* domination with <= in place of <
Dominates_NonStrict(cs, c1, c2, hr) ==
    LET p == Extreme(cs, c1, c2, hr)
    IN  RLe(Distance(p, cs[c1 + 1]), Distance(p, cs[c2 + 1]))

\* domination that asks c1, at the point p, to beat c2's distance to the box
Dominates_MinMax(cs, c1, c2, hr) ==
    LET p == Extreme(cs, c1, c2, hr)
    IN  RLt(Distance(p, cs[c1 + 1]), HDistance(hr, cs[c2 + 1]))

\* Centers::dominates
Dominates(cs, c1, c2, hr) ==
    LET p == Extreme(cs, c1, c2, hr)
    IN  RLt(Distance(p, cs[c1 + 1]), Distance(p, cs[c2 + 1]))

\* owner without the domination tests: the center min_d found
Owner_SkipDominates(cs, hr) == MinD(cs, hr)

\* Centers::owner
Owner(cs, hr) ==
    LET m == MinD(cs, hr)
    IN  IF m = <<>> THEN <<>>
        ELSE IF \E c2 \in 0..(Len(cs) - 1) : m[1] /= c2 /\ ~Dominates(cs, m[1], c2, hr)
             THEN <<>>
             ELSE m

\* Centers::update on the node at `path`: <<centers, counts>>, entry k + 1 of
\* each for center k.
RECURSIVE Update(_, _, _)
Update(cs, t, path) ==
    LET K == Len(cs)
        node == t[path]
        zero == <<[k \in 1..K |-> PointDefault], [k \in 1..K |-> 0]>>
    IN  IF node.kind = "NonLeaf"
        THEN LET o == Owner(cs, node.h)
             IN  IF o /= <<>>
                 THEN << [zero[1] EXCEPT ![o[1] + 1] =
                            PointAdd(@, PointMul(node.center_of_mass, node.number_of_points))],
                         [zero[2] EXCEPT ![o[1] + 1] = @ + node.number_of_points] >>
                 ELSE LET l == Update(cs, t, Append(path, "l"))
                          r == Update(cs, t, Append(path, "r"))
                      IN  << [k \in 1..K |-> PointAdd(PointAdd(zero[1][k], l[1][k]), r[1][k])],
                             [k \in 1..K |-> l[2][k] + r[2][k]] >>
        ELSE LET c == Closest(cs, node.point)
             IN  << [zero[1] EXCEPT ![c + 1] = PointAdd(@, node.point)],
                    [zero[2] EXCEPT ![c + 1] = @ + 1] >>

---------------------------------------------------------------------------
(* clusterer.rs: KMeans::new *)

\* Algorithm::Naive, the search for the closest center of point p, from center k on
RECURSIVE NaiveClosestLoop(_, _, _, _, _)
NaiveClosestLoop(cs, p, k, min_d, min_c) ==
    IF k >= Len(cs) THEN min_c
    ELSE LET d == Distance(cs[k + 1], p)
         IN  IF RLt(d, min_d) THEN NaiveClosestLoop(cs, p, k + 1, d, k)
             ELSE NaiveClosestLoop(cs, p, k + 1, min_d, min_c)

\* Algorithm::Naive, the loop over the points 0..i-1:
\* <<new_centers, new_counts, point_centers>>
RECURSIVE NaiveLoop(_, _, _)
NaiveLoop(cs, ps, i) ==
    IF i = 0
    THEN << [k \in 1..Len(cs) |-> PointDefault], [k \in 1..Len(cs) |-> 0],
            [j \in 1..Len(ps) |-> 0] >>
    ELSE LET a == NaiveLoop(cs, ps, i - 1)
             min_c == NaiveClosestLoop(cs, ps[i], 0, INFINITY, 0)
         IN  << [a[1] EXCEPT ![min_c + 1] = PointAdd(@, ps[i])],
                [a[2] EXCEPT ![min_c + 1] = @ + 1],
                [a[3] EXCEPT ![i] = min_c] >>

\* The loop "for each new center": the new center k (entry k + 1)
NewCenter(sums, counts, k) ==
    IF counts[k + 1] = 0 THEN sums[k + 1] ELSE PointDiv(sums[k + 1], counts[k + 1])

\* The loop "for each new center": the centers after it
Recompute(cs, sums, counts) == [k \in 1..Len(cs) |-> NewCenter(sums, counts, k - 1)]

\* The loop "for each new center": different
Different(cs, sums, counts) ==
    \E k \in 1..Len(cs) : cs[k] /= NewCenter(sums, counts, k - 1)

\* The labels Algorithm::Simple computes once the centers are stable
SimpleLabels(cs, ps) == [i \in 1..Len(ps) |-> Closest(cs, ps[i])]

\* random_points: the centers rand::seq::index::sample(rng, R, K) can draw,
\* K distinct indices in any order
RandomPoints(ps, K) ==
    {[k \in 1..K |-> ps[idx[k]]] :
        idx \in {f \in [1..K -> 1..Len(ps)] : \A a, b \in 1..K : a /= b => f[a] /= f[b]}}

\* One iteration of the loop with Algorithm::Simple.
LoopSimple ==
    /\ algorithm = "Simple" /\ pc \in {"built", "loop"}
    /\ Len(trace) <= MaxIter
    /\ LET updated == Update(centers, tree, <<>>)
           different == Different(centers, updated[1], updated[2])
       IN  /\ new_counts' = updated[2]
           /\ centers' = Recompute(centers, updated[1], updated[2])
           /\ point_centers' = IF different THEN [i \in 1..Len(points) |-> 0]
                               ELSE SimpleLabels(centers', points)
           /\ pc' = IF different THEN "loop" ELSE "returned"
    /\ trace' = Append(trace, centers')
    /\ UNCHANGED <<points, sel, stack, tree, h, x, out, algorithm, initial, simple>>

\* One iteration of the loop with Algorithm::Naive.
LoopNaive ==
    /\ algorithm = "Naive" /\ pc = "loop"
    /\ Len(trace) <= MaxIter
    /\ LET a == NaiveLoop(centers, points, Len(points))
           different == Different(centers, a[1], a[2])
       IN  /\ new_counts' = a[2]
           /\ centers' = Recompute(centers, a[1], a[2])
           /\ point_centers' = a[3]
           /\ pc' = IF different THEN "loop" ELSE "returned"
    /\ trace' = Append(trace, centers')
    /\ UNCHANGED <<points, sel, stack, tree, h, x, out, algorithm, initial, simple>>

\* The Simple fit is over (returned, or died building the tree): fit the same
\* points with Algorithm::Naive from the same random state.
FitNaive ==
    /\ algorithm = "Simple" /\ pc \in {"returned", "panic", "overflow"}
    /\ simple' = [pc |-> pc, centers |-> centers, point_centers |-> point_centers,
                  trace |-> trace]
    /\ algorithm' = "Naive"
    /\ centers' = initial
    /\ trace' = <<initial>>
    /\ point_centers' = [i \in 1..Len(points) |-> 0]
    /\ new_counts' = [k \in 1..Len(initial) |-> 0]
    /\ pc' = "loop"
    /\ UNCHANGED <<points, sel, stack, tree, h, x, out, initial>>

\* KMeans::fit_with_random_state(points, Algorithm::Simple, seed), the centers
\* drawn and the tree about to be built.
Init ==
    /\ points \in SortedPointSeqs /\ Len(points) >= 1
    /\ \E K \in 1..MaxK : K <= Len(points) /\ initial \in RandomPoints(points, K)
    /\ centers = initial
    /\ trace = <<initial>>
    /\ algorithm = "Simple"
    /\ pc = "call"
    /\ point_centers = [i \in 1..Len(points) |-> 0]
    /\ new_counts = [k \in 1..Len(initial) |-> 0]
    /\ sel = NoSel /\ stack = <<>> /\ tree = <<>> /\ h = NoBox
    /\ x = PointDefault /\ out = <<>> /\ simple = <<>>

Next ==
    \/ Initialize
    \/ MakeLeaf
    \/ MakeNonLeaf
    \/ MakeNodePanic
    \/ MakeNodeOverflow
    \/ LoopSimple
    \/ FitNaive
    \/ LoopNaive

Spec == Init /\ [][Next]_vars

---------------------------------------------------------------------------
(* Centers::update and Centers::owner called directly *)

NonLeaves == {p \in DOMAIN tree : tree[p].kind = "NonLeaf"}

\* The number of entries of the sequence ps equal to p.
Occurrences(ps, p) == Cardinality({i \in 1..Len(ps) : ps[i] = p})

\* The sequences ps and qs hold the same points the same number of times.
SameMultiset(ps, qs) ==
    /\ Len(ps) = Len(qs)
    /\ \A i \in 1..Len(ps) : Occurrences(ps, ps[i]) = Occurrences(qs, ps[i])

\* The point p lies in the box hr, boundary included.
Inside(hr, p) == \A d \in Dims : RLe(hr[1][d], p[d]) /\ RLe(p[d], hr[2][d])

\* The sum of the coordinates d of the points of ps.
RECURSIVE SumCoord(_, _, _)
SumCoord(ps, d, i) == IF i = 0 THEN Zero ELSE RAdd(SumCoord(ps, d, i - 1), ps[i][d])

\* The least and the greatest coordinate d among the points of ps (ps non-empty).
MinCoord(ps, d) ==
    CHOOSE v \in {ps[i][d] : i \in 1..Len(ps)} : \A i \in 1..Len(ps) : RLe(v, ps[i][d])
MaxCoordOf(ps, d) ==
    CHOOSE v \in {ps[i][d] : i \in 1..Len(ps)} : \A i \in 1..Len(ps) : RLe(ps[i][d], v)

\* The box hr is the tightest box around the points of ps.
Tightest(hr, ps) ==
    \A d \in Dims : hr[1][d] = MinCoord(ps, d) /\ hr[2][d] = MaxCoordOf(ps, d)

\* The box inner lies in the box outer.
BoxInside(outer, inner) ==
    \A d \in Dims : RLe(outer[1][d], inner[1][d]) /\ RLe(inner[2][d], outer[2][d])

\* centers.update(&tree) on a built tree, for centers of the caller's choice.
UpdateCall ==
    /\ pc = "built"
    /\ \E cs \in GridCenterSeqs :
        /\ centers' = cs
        /\ out' = Update(cs, tree, <<>>)
    /\ pc' = "updated"
    /\ UNCHANGED <<points, sel, stack, tree, h, x, algorithm, initial, new_counts,
                   point_centers, trace, simple>>

NextUpdate ==
    \/ Initialize
    \/ MakeLeaf
    \/ MakeNonLeaf
    \/ MakeNodePanic
    \/ MakeNodeOverflow
    \/ UpdateCall

\* Tree::initialize about to be called; the points in non-decreasing order
\* (update's sums and counts do not depend on the order of the points).
InitUpdate ==
    /\ points \in SortedPointSeqs
    /\ pc = "call"
    /\ sel = NoSel
    /\ stack = <<>> /\ tree = <<>> /\ centers = <<>> /\ h = NoBox
    /\ x = PointDefault /\ out = <<>> /\ algorithm = "None" /\ initial = <<>>
    /\ new_counts = <<>> /\ point_centers = <<>> /\ trace = <<>> /\ simple = <<>>

SpecUpdate == InitUpdate /\ [][NextUpdate]_vars

InitOwner ==
    /\ h \in Boxes \cup {TestBox}
    /\ pc = "call"
    /\ points = <<>> /\ sel = NoSel /\ stack = <<>> /\ tree = <<>> /\ centers = <<>>
    /\ x = PointDefault /\ out = <<>> /\ algorithm = "None" /\ initial = <<>>
    /\ new_counts = <<>> /\ point_centers = <<>> /\ trace = <<>> /\ simple = <<>>

\* centers.owner(&h), for centers of the caller's choice.
OwnerCall ==
    /\ pc = "call"
    /\ \E cs \in CenterSeqs \cup {TestCenters} :
        /\ centers' = cs
        /\ out' = Owner(cs, h)
    /\ pc' = "owner"
    /\ UNCHANGED <<points, sel, stack, tree, h, x, algorithm, initial, new_counts,
                   point_centers, trace, simple>>

NextOwner == OwnerCall

SpecOwner == InitOwner /\ [][NextOwner]_vars

\* The per-center sums and counts of a pass over the points 1..i that assigns
\* each to Centers::closest.
RECURSIVE BruteForce(_, _, _)
BruteForce(cs, ps, i) ==
    IF i = 0 THEN <<[k \in 1..Len(cs) |-> PointDefault], [k \in 1..Len(cs) |-> 0]>>
    ELSE LET a == BruteForce(cs, ps, i - 1)
             c == Closest(cs, ps[i])
         IN  << [a[1] EXCEPT ![c + 1] = PointAdd(@, ps[i])],
                [a[2] EXCEPT ![c + 1] = @ + 1] >>

\* The non-leaf nodes at which update stops because the box has an owner.
Pruned(cs) ==
    {p \in NonLeaves :
        /\ Owner(cs, tree[p].h) /= <<>>
        /\ \A n \in 0..(Len(p) - 1) : Owner(cs, tree[SubSeq(p, 1, n)].h) = <<>>}

\* C1: for any centers and any tree built by Tree::initialize, update returns
\* the per-center sums and counts of the brute-force pass that assigns every
\* input point to closest(point).
C1_UpdateIsBruteForce ==
    pc = "updated" => out = BruteForce(centers, points, Len(points))

\* C1 witness: update returned for several centers after crediting the cached
\* aggregates of a whole subtree to its owner.
C1_Witness ==
    /\ pc = "updated" /\ Len(centers) >= 2
    /\ \E p \in Pruned(centers) : tree[p].number_of_points >= 2

\* C2: if owner(box) returns Some(c), then closest(point) = c for every point
\* inside the box, boundary included.
C2_OwnerSound ==
    (pc = "owner" /\ out /= <<>>) =>
        \A p \in HalfPoints : Inside(h, p) => Closest(centers, p) = out[1]

\* C2 witness: owner returned a center other than the first for a box that is
\* not a single point.
C2_Witness ==
    /\ pc = "owner" /\ out /= <<>> /\ out[1] >= 1
    /\ h[1] /= h[2]

\* The squared distance from the point c to the box hr: per dimension, the gap
\* between c and the nearer face, nothing where c lies between the faces.
BoxGap(hr, c, d) ==
    IF RLt(c[d], hr[1][d]) THEN RSub(hr[1][d], c[d])
    ELSE IF RLt(hr[2][d], c[d]) THEN RSub(c[d], hr[2][d])
    ELSE Zero
BoxDistance(hr, c) ==
    LET sum[d \in 0..M] ==
            IF d = 0 THEN Zero ELSE RAdd(sum[d - 1], RMul(BoxGap(hr, c, d), BoxGap(hr, c, d)))
    IN  sum[M]

\* The centers at the least distance from the box hr.
NearestToBox(cs, hr) ==
    LET dist == [c \in 0..(Len(cs) - 1) |-> BoxDistance(hr, cs[c + 1])]
    IN  {c \in 0..(Len(cs) - 1) : \A c2 \in 0..(Len(cs) - 1) : RLe(dist[c], dist[c2])}

\* The corner of hr chosen per dimension for c1 against c2: the max corner's
\* coordinate where c1 is below c2, else the min corner's.
WorstCorner(cs, c1, c2, hr) ==
    [d \in Dims |-> IF RLt(cs[c1 + 1][d], cs[c2 + 1][d]) THEN hr[2][d] ELSE hr[1][d]]

\* c1 is strictly nearer than every other center at the corner chosen against it.
BeatsAll(cs, c1, hr) ==
    \A c2 \in 0..(Len(cs) - 1) \ {c1} :
        RLt(Distance(WorstCorner(cs, c1, c2, hr), cs[c1 + 1]),
            Distance(WorstCorner(cs, c1, c2, hr), cs[c2 + 1]))

\* C11: owner(box) returns Some(c1) exactly when c1 is the one center at the
\* least distance from the box and c1 is strictly nearer than every other
\* center c2 at the corner chosen against c2; it returns None when centers tie
\* for the least distance or a domination test fails.  On the box [(0,0),(2,2)]
\* with the centers (-2.5,-2.5), (3,1) it returns index 1.
C11_OwnerExact ==
    pc = "owner" =>
        LET nearest == NearestToBox(centers, h)
        IN  /\ \A c1 \in 0..(Len(centers) - 1) :
                  out = <<c1>> <=> (nearest = {c1} /\ BeatsAll(centers, c1, h))
            /\ (Cardinality(nearest) >= 2) => out = <<>>
            /\ (\E c1 \in nearest : ~BeatsAll(centers, c1, h)) => out = <<>>
            /\ (h = TestBox /\ centers = TestCenters) => out = <<1>>

\* C11 witness: owner returned None for a box with a single nearest center,
\* because that center failed a domination test.
C11_Witness ==
    /\ pc = "owner" /\ out = <<>>
    /\ \E c1 \in 0..(Len(centers) - 1) :
          NearestToBox(centers, h) = {c1} /\ ~BeatsAll(centers, c1, h)

\* The corners of the box hr.
Corners(hr) == {p \in [Dims -> UNION {{hr[1][d], hr[2][d]} : d \in Dims}] :
                  \A d \in Dims : p[d] \in {hr[1][d], hr[2][d]}}

\* Center c is strictly nearer than every other center to every point of the
\* box hr: the points nearer to c than to c2 form a half-space, so it is enough
\* that the corners of the box are.
OwnsBox(cs, c, hr) ==
    \A c2 \in 0..(Len(cs) - 1) \ {c} :
        \A p \in Corners(hr) : RLt(Distance(p, cs[c + 1]), Distance(p, cs[c2 + 1]))

\* C18: if some center c is strictly nearer than every other center to every
\* point of the box, corners included, owner(box) returns Some(c), not None.
C18_OwnerComplete ==
    pc = "owner" =>
        \A c \in 0..(Len(centers) - 1) : OwnsBox(centers, c, h) => out = <<c>>

\* C18 witness: owner returned a center that is strictly nearer than another
\* center to every point of a box that is not a single point.
C18_Witness ==
    /\ pc = "owner" /\ Len(centers) >= 2 /\ h[1] /= h[2]
    /\ \E c \in 0..(Len(centers) - 1) : OwnsBox(centers, c, h) /\ out = <<c>>

---------------------------------------------------------------------------
(* HyperRectangle::closest, distance and split called directly *)

\* The variables the hyper-rectangle operations leave alone.
boxFrame == <<points, sel, stack, tree, centers, algorithm, initial, new_counts,
              point_centers, trace, simple>>

InitBox ==
    /\ h \in Boxes \cup {TestBox}
    /\ pc = "call"
    /\ points = <<>> /\ sel = NoSel /\ stack = <<>> /\ tree = <<>> /\ centers = <<>>
    /\ x = PointDefault /\ out = <<>> /\ algorithm = "None" /\ initial = <<>>
    /\ new_counts = <<>> /\ point_centers = <<>> /\ trace = <<>> /\ simple = <<>>

\* h.closest(&x), for a point of the caller's choice.
HClosestCall ==
    /\ pc = "call"
    /\ \E p \in ProbePoints \cup {TestPoint} :
        /\ x' = p
        /\ out' = HClosest(h, p)
    /\ pc' = "closest"
    /\ UNCHANGED h /\ UNCHANGED boxFrame

\* h.distance(&x), for a point of the caller's choice.
HDistanceCall ==
    /\ pc = "call"
    /\ \E p \in ProbePoints \cup {TestPoint} :
        /\ x' = p
        /\ out' = HDistance(h, p)
    /\ pc' = "distance"
    /\ UNCHANGED h /\ UNCHANGED boxFrame

\* h.split(d, v), for a dimension and a value of the caller's choice; `out`
\* keeps the arguments beside the pair returned.
HSplitCall ==
    /\ pc = "call"
    /\ \E d \in Dims, v \in ProbeCoords :
        out' = [d |-> d, v |-> v, ret |-> HSplit(h, d, v)]
    /\ pc' = "split"
    /\ UNCHANGED <<h, x>> /\ UNCHANGED boxFrame

NextBox == HClosestCall \/ HDistanceCall \/ HSplitCall

SpecBox == InitBox /\ [][NextBox]_vars

\* C13: for a well-formed box, closest(point) lies inside the box, is the point
\* with every coordinate clamped to [min[d], max[d]], and no point of the box
\* is nearer to the given point; closest(point) = point and distance(point) = 0
\* when the point is inside the box, and distance(point) > 0 when it is outside.
C13_ClosestNearest ==
    /\ pc = "closest" =>
          /\ Inside(h, out)
          /\ \A d \in Dims :
                out[d] = (IF RLt(x[d], h[1][d]) THEN h[1][d]
                          ELSE IF RLt(h[2][d], x[d]) THEN h[2][d] ELSE x[d])
          /\ \A q \in ProbePoints : Inside(h, q) => RLe(Distance(out, x), Distance(q, x))
          /\ Inside(h, x) => out = x
          /\ (h = TestBox /\ x = TestPoint) => out = <<Zero, Rat(2, 1)>>
    /\ pc = "distance" =>
          /\ out = BoxDistance(h, x)
          /\ \A q \in ProbePoints : Inside(h, q) => RLe(out, Distance(q, x))
          /\ Inside(h, x) => out = Zero
          /\ ~Inside(h, x) => RLt(Zero, out)
          /\ (h = TestBox /\ x = TestPoint) => out = Rat(5, 1)

\* C13 witness: closest returned for a point outside the box in one dimension
\* and strictly between the faces in the other.
C13_Witness ==
    /\ pc = "closest" /\ ~Inside(h, x) /\ out /= x
    /\ \E d \in Dims : RLt(h[1][d], x[d]) /\ RLt(x[d], h[2][d])

\* C14: split(d, v) returns (left, right) where left is the box with v as its
\* max corner's coordinate d, right is the box with v as its min corner's
\* coordinate d, every other coordinate of both corners is the box's, and the
\* box itself is as it was before the call.
C14_SplitFrame ==
    [][pc' = "split" =>
          /\ h' = h
          /\ LET left == out'.ret[1]
                 right == out'.ret[2]
             IN  \A d \in Dims :
                    /\ left[1][d] = h[1][d]
                    /\ left[2][d] = (IF d = out'.d THEN out'.v ELSE h[2][d])
                    /\ right[1][d] = (IF d = out'.d THEN out'.v ELSE h[1][d])
                    /\ right[2][d] = h[2][d]
          /\ (h = TestBox /\ out'.d = 2 /\ out'.v = Rat(1, 1)) =>
                out'.ret = << <<TestBox[1], <<Rat(2, 1), Rat(1, 1)>> >>,
                             << <<Zero, Rat(1, 1)>>, TestBox[2]>> >>
      ]_vars

\* C14 witness: split returned for a value strictly between the faces of a box
\* that has width in both dimensions.
C14_Witness ==
    /\ pc = "split"
    /\ \A d \in Dims : RLt(h[1][d], h[2][d])
    /\ RLt(h[1][out.d], out.v) /\ RLt(out.v, h[2][out.d])

---------------------------------------------------------------------------
(* Centers::closest called directly *)

InitClosest ==
    /\ x \in HalfPoints
    /\ pc = "call"
    /\ points = <<>> /\ sel = NoSel /\ stack = <<>> /\ tree = <<>> /\ centers = <<>>
    /\ h = NoBox /\ out = <<>> /\ algorithm = "None" /\ initial = <<>>
    /\ new_counts = <<>> /\ point_centers = <<>> /\ trace = <<>> /\ simple = <<>>

\* centers.closest(&x), for centers of the caller's choice.
ClosestCall ==
    /\ pc = "call"
    /\ \E cs \in CenterSeqs :
        /\ centers' = cs
        /\ out' = Closest(cs, x)
    /\ pc' = "center"
    /\ UNCHANGED <<points, sel, stack, tree, h, x, algorithm, initial, new_counts,
                   point_centers, trace, simple>>

NextClosest == ClosestCall

SpecClosest == InitClosest /\ [][NextClosest]_vars

\* C16: closest(point) returns an index k whose center is at the least distance
\* from the point among all K centers, and the lowest index among the centers
\* at that distance.
C16_ClosestFirstMin ==
    pc = "center" =>
        /\ out \in 0..(Len(centers) - 1)
        /\ \A k \in 0..(Len(centers) - 1) :
              /\ RLe(Distance(x, centers[out + 1]), Distance(x, centers[k + 1]))
              /\ k < out => RLt(Distance(x, centers[out + 1]), Distance(x, centers[k + 1]))

\* C16 witness: closest returned the lower index of two centers at different
\* places and the same distance from the point.
C16_Witness ==
    /\ pc = "center" /\ Len(centers) = 2 /\ centers[1] /= centers[2]
    /\ Distance(x, centers[1]) = Distance(x, centers[2])
    /\ out = 0

---------------------------------------------------------------------------
(* Properties of the tree *)

\* C3: for every input of size >= 1, identical coordinates included,
\* Tree::initialize returns a tree, and get_points on it yields the input
\* multiset exactly.
C3_TreeComplete ==
    Len(points) >= 1 =>
        /\ pc \notin {"panic", "overflow"}
        /\ pc = "built" => SameMultiset(get_points(tree, <<>>), points)

\* C4: when Tree::initialize is called with a non-empty point set, every
\* make_node call receives at least one point and construction never reaches
\* the failure on empty input.
C4_NoEmptyCall ==
    Len(points) >= 1 =>
        /\ pc /= "panic"
        /\ stack /= <<>> => Len(Head(stack).points) >= 1

\* C6: in every tree built, every node's number_of_points is the number of
\* leaves below it and its center_of_mass is the mean of their points.
C6_Aggregates ==
    pc = "built" =>
        \A p \in DOMAIN tree :
            LET leaves == get_points(tree, p)
            IN  /\ tree[p].number_of_points = Len(leaves)
                /\ \A d \in Dims :
                      RMul(tree[p].center_of_mass[d], Rat(Len(leaves), 1))
                          = SumCoord(leaves, d, Len(leaves))

\* C6 witness: a built tree whose root is a non-leaf over three points with a
\* non-integer mean.
C6_Witness ==
    /\ pc = "built" /\ tree[<<>>].kind = "NonLeaf"
    /\ tree[<<>>].number_of_points = 3
    /\ \E d \in Dims : Den(tree[<<>>].center_of_mass[d]) = 3

\* C7: in every tree built, each node's box contains every point of the
\* leaves below it, and each child's box lies in its parent's box.
C7_Bounding ==
    pc = "built" =>
        /\ \A p \in DOMAIN tree :
              LET leaves == get_points(tree, p)
              IN  \A i \in 1..Len(leaves) : Inside(tree[p].h, leaves[i])
        /\ \A p \in NonLeaves :
              /\ BoxInside(tree[p].h, tree[Append(p, "l")].h)
              /\ BoxInside(tree[p].h, tree[Append(p, "r")].h)

\* C7 witness: a built tree of depth two, whose inner boxes are proper parts
\* of the root's box.
C7_Witness ==
    /\ pc = "built"
    /\ \E p \in NonLeaves : Len(p) = 1 /\ tree[p].h /= tree[<<>>].h

\* C8 as stated: every node's box is the tightest box around the points
\* below it.
C8_AllTight ==
    pc = "built" =>
        \A p \in DOMAIN tree : Tightest(tree[p].h, get_points(tree, p))

\* C8 amended: the root's box is the tightest box around all the points; below
\* the root a box is tight on the side the split set: the max corner of a left
\* child, on its parent's split dimension, is the largest such coordinate of the
\* points below that child.
C8_RootTight ==
    pc = "built" =>
        /\ Tightest(tree[<<>>].h, points)
        /\ \A p \in NonLeaves :
              tree[Append(p, "l")].h[2][tree[p].d]
                  = MaxCoordOf(get_points(tree, Append(p, "l")), tree[p].d)

\* C8 witness: a built tree with a node whose box is not the tightest one.
C8_Witness ==
    /\ pc = "built" /\ NonLeaves /= {}
    /\ \E p \in DOMAIN tree : ~Tightest(tree[p].h, get_points(tree, p))

\* The points ps are on the side `side` of the value v in dimension d:
\* at most v on the left, above v on the right.
OnSide(ps, side, d, v) ==
    \A i \in 1..Len(ps) :
        IF side = "l" THEN RLe(ps[i][d], v) ELSE RLt(v, ps[i][d])

\* C15: in every tree built, for every non-leaf node with split dimension d and
\* split value v, every point of the left subtree has coordinate d <= v (points
\* equal to v go left), every point of the right subtree has coordinate d > v,
\* and v is the median of the node's points on d.  The points handed to a
\* pending make_node call obey the same rule against the caller's d and v.
C15_SplitRule ==
    /\ pc = "built" =>
          \A p \in NonLeaves :
              LET below == get_points(tree, p)
              IN  /\ OnSide(get_points(tree, Append(p, "l")), "l", tree[p].d, tree[p].v)
                  /\ OnSide(get_points(tree, Append(p, "r")), "r", tree[p].d, tree[p].v)
                  /\ IsSortedAt(below, tree[p].d, (Len(below) - 1) \div 2, tree[p].v)
    /\ \A i \in 1..Len(stack) :
          LET f == stack[i]
              n == Len(f.path)
          IN  n >= 1 =>
                LET parent == tree[SubSeq(f.path, 1, n - 1)]
                IN  OnSide(f.points, f.path[n], parent.d, parent.v)

\* C15 witness: a built tree whose root sent two points, both at the split
\* value, to the left and a point above it to the right.
C15_Witness ==
    /\ pc = "built" /\ tree[<<>>].kind = "NonLeaf"
    /\ tree[<<"l">>].number_of_points = 2 /\ tree[<<"r">>].number_of_points >= 1
    /\ \A i \in 1..2 : get_points(tree, <<"l">>)[i][tree[<<>>].d] = tree[<<>>].v

---------------------------------------------------------------------------
(* Properties of the convergence loop *)

\* The fit stopped following the loop only because it returned.
LoopBounded == Len(trace) <= MaxIter

\* Where the tree was built, the two fits agree.
AgreeWhenBuilt ==
    (algorithm = "Naive" /\ pc = "returned" /\ simple.pc = "returned") =>
        /\ simple.trace = trace /\ simple.centers = centers
        /\ simple.point_centers = point_centers

\* C9: for the same points and the same initial centers, the Simple fit and
\* the Naive fit go through the same sequence of centers, stop after the same
\* number of iterations and return the same centers and labels.
C9_SameFit ==
    (algorithm = "Naive" /\ pc = "returned") =>
        /\ simple.pc = "returned"
        /\ simple.trace = trace
        /\ simple.centers = centers
        /\ simple.point_centers = point_centers

\* C10: a center that was assigned no point in an iteration has, after the
\* iteration's recompute step, the coordinates it had before it.
C10_EmptyKeeps ==
    Len(trace) >= 2 =>
        \A k \in 1..Len(centers) :
            new_counts[k] = 0 => trace[Len(trace)][k] = trace[Len(trace) - 1][k]

\* K is the number of points and the initial centers are the pairwise distinct
\* input points, in input order.
PointsAreCenters ==
    /\ initial = points
    /\ \A i, j \in 1..Len(points) : i /= j => points[i] /= points[j]

\* The running fit made at most one iteration, and that iteration left every
\* center where it was, returned, and labelled point i with center i.
OneIteration ==
    /\ Len(trace) <= 2
    /\ Len(trace) = 2 =>
          /\ trace[2] = trace[1]
          /\ pc = "returned"
          /\ point_centers = [i \in 1..Len(points) |-> i - 1]

\* C12: when K is the number of points and the initial centers are the
\* pairwise distinct input points in input order, the fit reaches the loop,
\* makes exactly one iteration, which leaves every center unchanged, returns,
\* and labels point i with center i, with Algorithm::Simple as with
\* Algorithm::Naive.
C12_OneIteration ==
    PointsAreCenters =>
        /\ pc \notin {"panic", "overflow"}
        /\ OneIteration

\* Where the tree gets built, and with Algorithm::Naive always, the fit from
\* the points as centers is over after one iteration that changes nothing.
OneIterationWhenBuilt ==
    (PointsAreCenters /\ pc \notin {"panic", "overflow"}) => OneIteration

====
